---- MODULE Spec2Model ----
(***************************************************************************)
(* Horizontal tank calibration script (Deviation_Calculation.py).          *)
(*                                                                         *)
(* The script is one sequential run: read R and L, load input_data.csv,    *)
(* compute the theoretical volume and the deviation of every row, select   *)
(* the rows of largest and smallest |deviation|, write the results file,   *)
(* render the plot.                                                        *)
(*                                                                         *)
(* Numbers.  R, L and the heights are whole centimetres.  Every other      *)
(* float of the script (the arccos argument and result, the square root,   *)
(* the volumes, the deviations) is a fixed-point number: the integer v     *)
(* stands for v / Scale.  NaN stands for the IEEE not-a-number that numpy  *)
(* returns (with a warning, never an exception) for 0/0, for arccos        *)
(* outside [-1, 1] and for sqrt of a negative number.                      *)
(***************************************************************************)
EXTENDS Integers, FiniteSets

VARIABLES
    stdin,          \* the two numbers the user types at the prompts
    file,           \* the rows of input_data.csv (below its header line)
    pc,             \* the section of the script that runs next
    R, L,           \* tank geometry as read
    df,             \* the data frame: one column per name, rows 0..n-1
    h_geo,          \* clipped heights
    max_dev_idx, min_dev_idx,
    max_dev_h, min_dev_h,
    csv_written,    \* geometric_calibration_comparison.csv exists
    png_written,    \* the plot was rendered and saved
    error           \* the exception that ended the run, if any

vars == <<stdin, file, pc, R, L, df, h_geo, max_dev_idx, min_dev_idx,
          max_dev_h, min_dev_h, csv_written, png_written, error>>

-----------------------------------------------------------------------------
(* Bounds of the model *)

MaxR == 2
MaxL == 1
MaxRows == 2

Radii == -1 .. MaxR
Lengths == -1 .. MaxL
Heights == -1 .. (2 * MaxR + 1)

-----------------------------------------------------------------------------
(* Fixed-point floats *)

Scale == 10^4

NaN == 0 - 2^30

IsNaN(x) == x = NaN

\* pi as np.arccos(-1) returns it, rounded to the nearest fixed-point number
PI == (314159265 + 5000) \div 10^4

MeasuredVolumes == {0 - 20, 0, 20}

Abs(x) == IF IsNaN(x) THEN NaN ELSE IF x < 0 THEN 0 - x ELSE x

\* a * b of two fixed-point numbers, rounded to nearest
FMul(a, b) ==
    IF IsNaN(a) \/ IsNaN(b) THEN NaN ELSE (a * b + Scale \div 2) \div Scale

\* num / den of two whole numbers, as a fixed-point number rounded to nearest;
\* 0 / 0 is NaN (the only division by zero the script can meet: R = 0 gives
\* h_geo = 0 and R - h_geo = 0)
FDiv(num, den) ==
    IF den = 0 THEN NaN
    ELSE IF den < 0 THEN (2 * (0 - num) * Scale + (0 - den)) \div (2 * (0 - den))
    ELSE (2 * num * Scale + den) \div (2 * den)

\* Conversion: 1 L = 1000 cm^3
CM3_TO_L == Scale \div 1000

-----------------------------------------------------------------------------
(* np.arccos and np.sqrt on fixed-point numbers *)

\* whole number n times the fixed-point number x
IMul(n, x) == IF IsNaN(x) THEN NaN ELSE n * x

FSub(a, b) == IF IsNaN(a) \/ IsNaN(b) THEN NaN ELSE a - b

\* cos x by its Taylor series, for 0 <= x <= pi/2 (fixed point in and out):
\* term_k = x^(2k) / (2k)!, summed with alternating sign
RECURSIVE CosSeries(_, _, _)
CosSeries(x, term, k) ==
    IF term = 0 THEN 0
    ELSE term - CosSeries(x,
                          (((term * x) \div ((2 * k + 1) * Scale)) * x)
                              \div ((2 * k + 2) * Scale),
                          k + 1)

Cos(x) == CosSeries(x, Scale, 0)

\* the smallest x in lo..hi with cos x <= a (cos is decreasing on [0, pi/2])
RECURSIVE ArcCosSearch(_, _, _)
ArcCosSearch(a, lo, hi) ==
    IF lo >= hi THEN hi
    ELSE LET mid == (lo + hi) \div 2
         IN  IF Cos(mid) <= a THEN ArcCosSearch(a, lo, mid)
             ELSE ArcCosSearch(a, mid + 1, hi)

\* np.arccos: the angle in [0, pi] whose cosine is a; NaN outside [-1, 1].
\* arccos(1) = 0 and arccos(-1) = pi exactly, arccos(-a) = pi - arccos(a).
ArcCos(a) ==
    IF IsNaN(a) \/ a < 0 - Scale \/ a > Scale THEN NaN
    ELSE IF a < 0 THEN PI - ArcCosSearch(0 - a, 0, PI \div 2)
    ELSE ArcCosSearch(a, 0, PI \div 2)

\* the largest s in lo..hi with s * s <= y
RECURSIVE SqrtSearch(_, _, _)
SqrtSearch(y, lo, hi) ==
    IF lo >= hi THEN lo
    ELSE LET mid == (lo + hi + 1) \div 2
         IN  IF mid * mid <= y THEN SqrtSearch(y, mid, hi)
             ELSE SqrtSearch(y, lo, mid - 1)

\* np.sqrt of the whole number x <= 16, as a fixed-point number; NaN below 0
Sqrt(x) ==
    IF x < 0 THEN NaN ELSE SqrtSearch(x * Scale * Scale, 0, 4 * Scale)

-----------------------------------------------------------------------------
(* 3. Theoretical volume from the geometric height relation *)

Min(a, b) == IF a <= b THEN a ELSE b
Max(a, b) == IF a >= b THEN a ELSE b

\* Clip as it would be with the upper limit forgotten
Clip_NoUpper(x, lo, hi) == Max(x, lo)

\* Clip as it would be with the lower limit forgotten
Clip_NoLower(x, lo, hi) == Min(x, hi)

\* np.clip(x, lo, hi) = minimum(maximum(x, lo), hi)
Clip(x, lo, hi) == Min(Max(x, lo), hi)

\* the argument the script hands to np.arccos, for clipped height h
ArccosArg(h, r) == FDiv(r - h, r)

\* the argument the script hands to np.sqrt, for clipped height h
SqrtArg(h, r) == 2 * r * h - h * h

\* Horizontal cylindrical tank (flat ends), clipped height h, in cm^3
V_theoretical_cm3(h, r, l) ==
    IMul(l, FSub(IMul(r * r, ArcCos(ArccosArg(h, r))),
                 IMul(r - h, Sqrt(SqrtArg(h, r)))))

\* The volume as it would be with the unit conversion forgotten
V_theoretical_L_NoConversion(h, r, l) == V_theoretical_cm3(h, r, l)

V_theoretical_L(h, r, l) == FMul(V_theoretical_cm3(h, r, l), CM3_TO_L)

\* V_theoretical_L of every geometry and every height the formula can be
\* handed, evaluated once (the script evaluates whole columns at once)
VolumeTable ==
    [r \in Radii |-> [l \in Lengths |->
        [h \in (0 - 2) .. (2 * MaxR + 1) |-> V_theoretical_L(h, r, l)]]]

\* The frame as it would be with the clipped heights stored over the read ones
Augment_StoresClipped(d, geo, vol) ==
    [d EXCEPT !.height = geo,
              !.V_theoretical = vol,
              !.deviation = [i \in DOMAIN vol |-> FSub(d.V_measured[i], vol[i])]]

\* df["V_theoretical"] = ...; df["deviation"] = V_measured - V_theoretical
Augment(d, geo, vol) ==
    [d EXCEPT !.V_theoretical = vol,
              !.deviation = [i \in DOMAIN vol |-> FSub(d.V_measured[i], vol[i])]]

-----------------------------------------------------------------------------
(* 4. Deviation extremes *)

\* np.argmax: one scan in index order, a later entry replaces the best so
\* far only when strictly larger (NaN entries are skipped: skipna)
RECURSIVE ArgMaxScan(_, _, _, _)
ArgMaxScan(a, n, i, best) ==
    IF i >= n THEN best
    ELSE ArgMaxScan(a, n, i + 1,
                    IF ~IsNaN(a[i]) /\ (IsNaN(a[best]) \/ a[i] > a[best])
                    THEN i ELSE best)

\* argmax as it would be if a later entry won ties
RECURSIVE ArgMaxScan_LastWins(_, _, _, _)
ArgMaxScan_LastWins(a, n, i, best) ==
    IF i >= n THEN best
    ELSE ArgMaxScan_LastWins(a, n, i + 1,
                    IF ~IsNaN(a[i]) /\ (IsNaN(a[best]) \/ a[i] >= a[best])
                    THEN i ELSE best)

ArgMax_LastWins(a) == ArgMaxScan_LastWins(a, Cardinality(DOMAIN a), 1, 0)

ArgMax(a) == ArgMaxScan(a, Cardinality(DOMAIN a), 1, 0)

\* np.argmin: the same scan, strictly smaller
RECURSIVE ArgMinScan(_, _, _, _)
ArgMinScan(a, n, i, best) ==
    IF i >= n THEN best
    ELSE ArgMinScan(a, n, i + 1,
                    IF ~IsNaN(a[i]) /\ (IsNaN(a[best]) \/ a[i] < a[best])
                    THEN i ELSE best)

ArgMin(a) == ArgMinScan(a, Cardinality(DOMAIN a), 1, 0)

AllNaN(a) == \A i \in DOMAIN a : IsNaN(a[i])

\* argmax as it would be if an empty column did not raise
ArgRaisesOnEmpty_Never(a) == FALSE

\* "attempt to get argmax of an empty sequence"
ArgRaisesOnEmpty(a) == DOMAIN a = {}

-----------------------------------------------------------------------------
Empty == [i \in {} |-> 0]

NoIndex == 0 - 1

Tables ==
    UNION { [0 .. (n - 1) -> [height : Heights, V_measured : MeasuredVolumes]]
            : n \in 0 .. MaxRows }

Init ==
    /\ stdin \in [R : Radii, L : Lengths]
    /\ file \in Tables
    /\ pc = "input"
    /\ R = 0
    /\ L = 0
    /\ df = [height |-> Empty, V_measured |-> Empty,
             V_theoretical |-> Empty, deviation |-> Empty]
    /\ h_geo = Empty
    /\ max_dev_idx = NoIndex
    /\ min_dev_idx = NoIndex
    /\ max_dev_h = 0
    /\ min_dev_h = 0
    /\ csv_written = FALSE
    /\ png_written = FALSE
    /\ error = "none"

\* 1. User Inputs
ReadGeometry ==
    /\ pc = "input"
    /\ R' = stdin.R
    /\ L' = stdin.L
    /\ pc' = "load"
    /\ UNCHANGED <<stdin, file, df, h_geo, max_dev_idx, min_dev_idx,
                   max_dev_h, min_dev_h, csv_written, png_written, error>>

\* 2. Load measured data
Load ==
    /\ pc = "load"
    /\ df' = [height |-> [i \in DOMAIN file |-> file[i].height],
              V_measured |-> [i \in DOMAIN file |-> file[i].V_measured],
              V_theoretical |-> Empty, deviation |-> Empty]
    /\ pc' = "compute"
    /\ UNCHANGED <<stdin, file, R, L, h_geo, max_dev_idx, min_dev_idx,
                   max_dev_h, min_dev_h, csv_written, png_written, error>>

\* 3. Compute theoretical volumes and deviations, all rows at once
Compute ==
    /\ pc = "compute"
    /\ LET h_measured == df.height
           geo == [i \in DOMAIN h_measured |-> Clip(h_measured[i], 0, 2 * R)]
           vol == [i \in DOMAIN geo |-> VolumeTable[R][L][geo[i]]]
       IN  /\ h_geo' = geo
           /\ df' = Augment(df, geo, vol)
    /\ pc' = "extremes"
    /\ UNCHANGED <<stdin, file, R, L, max_dev_idx, min_dev_idx,
                   max_dev_h, min_dev_h, csv_written, png_written, error>>

\* the scanned column as it would be with np.abs forgotten
AbsDeviation_Signed == df.deviation

\* np.abs(df["deviation"])
AbsDeviation == [i \in DOMAIN df.deviation |-> Abs(df.deviation[i])]

\* 4. Identify deviation extremes.  argmax of an empty column raises
\* ValueError (line 52).  A column of NaN only (R = 0) either raises
\* ValueError at line 52 or yields -1, and then df.loc[-1, "height"] raises
\* KeyError at line 55: which of the two depends on the pandas release.
Extremes ==
    /\ pc = "extremes"
    /\ IF ArgRaisesOnEmpty(AbsDeviation)
       THEN /\ error' = "ValueError"
            /\ pc' = "failed"
            /\ UNCHANGED <<max_dev_idx, min_dev_idx, max_dev_h, min_dev_h>>
       ELSE IF AllNaN(AbsDeviation)
       THEN /\ error' \in {"ValueError", "KeyError"}
            /\ pc' = "failed"
            /\ UNCHANGED <<max_dev_idx, min_dev_idx, max_dev_h, min_dev_h>>
       ELSE /\ max_dev_idx' = ArgMax(AbsDeviation)
            /\ min_dev_idx' = ArgMin(AbsDeviation)
            /\ max_dev_h' = df.height[ArgMax(AbsDeviation)]
            /\ min_dev_h' = df.height[ArgMin(AbsDeviation)]
            /\ pc' = "export"
            /\ UNCHANGED error
    /\ UNCHANGED <<stdin, file, R, L, df, h_geo, csv_written, png_written>>

\* 5. Export results
Export ==
    /\ pc = "export"
    /\ csv_written' = TRUE
    /\ pc' = "plot"
    /\ UNCHANGED <<stdin, file, R, L, df, h_geo, max_dev_idx, min_dev_idx,
                   max_dev_h, min_dev_h, png_written, error>>

\* The plot as it would be if rendered in place of the export
Plot_BeforeExport ==
    /\ pc = "export"
    /\ png_written' = TRUE
    /\ pc' = "done"
    /\ UNCHANGED <<stdin, file, R, L, df, h_geo, max_dev_idx, min_dev_idx,
                   max_dev_h, min_dev_h, csv_written, error>>

\* 6. Plot measured vs theoretical volume and the deviation
Plot ==
    /\ pc = "plot"
    /\ png_written' = TRUE
    /\ pc' = "done"
    /\ UNCHANGED <<stdin, file, R, L, df, h_geo, max_dev_idx, min_dev_idx,
                   max_dev_h, min_dev_h, csv_written, error>>

Next ==
    \/ ReadGeometry
    \/ Load
    \/ Compute
    \/ Extremes
    \/ Export
    \/ Plot

Spec == Init /\ [][Next]_vars

-----------------------------------------------------------------------------
(* Stages of a run *)

\* the geometry has been read (R and L hold what the user typed)
GeometryRead == pc # "input"

\* the table has been loaded into df
Loaded == pc \notin {"input", "load"}

\* section 3 has run: every row has its theoretical volume and deviation
Computed == pc \in {"extremes", "export", "plot", "done", "failed"}

\* section 4 has run without raising: both extremes are selected
Selected == pc \in {"export", "plot", "done"}

Rows == DOMAIN file

-----------------------------------------------------------------------------
(* Claims *)

\* C1: with zero measurements the run fails with the error argmax raises for
\* an empty sequence, before any row is evaluated, and produces no result:
\* no evaluated row, no extreme, no results file, no plot.
C1_EmptyInputFails ==
    (Rows = {}) =>
        /\ DOMAIN df.V_theoretical = {}
        /\ DOMAIN df.deviation = {}
        /\ DOMAIN h_geo = {}
        /\ max_dev_idx = NoIndex
        /\ min_dev_idx = NoIndex
        /\ ~Selected
        /\ ~csv_written
        /\ ~png_written
        /\ (pc = "failed" => error = "ValueError")
        /\ (error # "none" => pc = "failed")

C1_Witness ==
    /\ Rows = {}
    /\ pc = "failed"
    /\ error = "ValueError"
    /\ R > 0
    /\ L > 0

\* C2: with radius <= 0 or length <= 0 the run fails with InvalidGeometry
\* before any row is evaluated: no evaluated row, no extreme, no results file.
C2_InvalidGeometryRejected ==
    (GeometryRead /\ (R <= 0 \/ L <= 0)) =>
        /\ DOMAIN df.V_theoretical = {}
        /\ DOMAIN df.deviation = {}
        /\ ~Selected
        /\ ~csv_written
        /\ ~png_written
        /\ (pc = "failed" => error = "InvalidGeometry")

\* C3: for a non-empty table the two selected indices are rows of the
\* result, the row at max_dev_idx has the largest |deviation| and the row at
\* min_dev_idx the smallest, deviation being V_measured - V_theoretical; and
\* with a non-empty table and valid geometry the selection never fails.
C3_ExtremesAreExtremal ==
    /\ Selected =>
        /\ Rows # {}
        /\ max_dev_idx \in DOMAIN df.deviation
        /\ min_dev_idx \in DOMAIN df.deviation
        /\ max_dev_h = df.height[max_dev_idx]
        /\ min_dev_h = df.height[min_dev_idx]
        /\ \A i \in DOMAIN df.deviation :
              /\ df.deviation[i] = df.V_measured[i] - df.V_theoretical[i]
              /\ Abs(df.deviation[i]) <= Abs(df.deviation[max_dev_idx])
              /\ Abs(df.deviation[i]) >= Abs(df.deviation[min_dev_idx])
    /\ (GeometryRead /\ Rows # {} /\ R > 0 /\ L > 0) => pc # "failed"

C3_Witness ==
    /\ pc = "done"
    /\ max_dev_idx = 1
    /\ min_dev_idx = 0
    /\ df.deviation[1] < 0
    /\ df.deviation[0] > df.deviation[1]
    /\ Abs(df.deviation[1]) > Abs(df.deviation[0])

\* C4: on ties the smallest index wins: no row before max_dev_idx reaches the
\* largest |deviation|, no row before min_dev_idx reaches the smallest; when
\* all rows have the same |deviation| both selections are row 0.
C4_FirstIndexWinsTies ==
    Selected =>
        /\ \A j \in DOMAIN df.deviation :
              /\ j < max_dev_idx =>
                    Abs(df.deviation[j]) < Abs(df.deviation[max_dev_idx])
              /\ j < min_dev_idx =>
                    Abs(df.deviation[j]) > Abs(df.deviation[min_dev_idx])
        /\ (\A i, j \in DOMAIN df.deviation :
                Abs(df.deviation[i]) = Abs(df.deviation[j]))
              => (max_dev_idx = 0 /\ min_dev_idx = 0)

C4_Witness ==
    /\ Selected
    /\ DOMAIN df.deviation = {0, 1}
    /\ df.deviation[0] # 0
    /\ df.deviation[1] = 0 - df.deviation[0]
    /\ max_dev_idx = 0
    /\ min_dev_idx = 0

\* Row preservation (state part of C5): the result has as many rows as the
\* table, row i keeps the height and
\* the measured volume of measurement i (also when the height is outside
\* [0, 2R]: the clipped height never replaces it), and the table itself is
\* never modified.
C5_RowsPreserved ==
    /\ Loaded =>
          /\ DOMAIN df.height = Rows
          /\ DOMAIN df.V_measured = Rows
          /\ \A i \in Rows :
                /\ df.height[i] = file[i].height
                /\ df.V_measured[i] = file[i].V_measured
    /\ Computed =>
          /\ DOMAIN df.V_theoretical = Rows
          /\ DOMAIN df.deviation = Rows
          /\ DOMAIN h_geo = Rows

\* C5: rows are preserved in every state of a run, and no step of the run
\* changes the input table.
C5_InputPreserved == [](C5_RowsPreserved) /\ [][file' = file]_vars

C5_Witness ==
    /\ pc = "done"
    /\ R > 0
    /\ L > 0
    /\ \E i, j \in Rows :
          /\ file[i].height > 2 * R
          /\ h_geo[i] = 2 * R
          /\ df.height[i] = file[i].height
          /\ file[j].height < 0
          /\ h_geo[j] = 0
          /\ df.height[j] = file[j].height
          /\ i < j

\* C6: for every row any run evaluates, the clipped height is in [0, 2R] and
\* equals the read height when that one is in [0, 2R].
C6_ClippedHeightInRange ==
    Computed =>
        \A i \in DOMAIN h_geo :
            /\ 0 <= h_geo[i]
            /\ h_geo[i] <= 2 * R
            /\ (0 <= df.height[i] /\ df.height[i] <= 2 * R)
                  => h_geo[i] = df.height[i]

\* C7: with R > 0 and L > 0, a row of height < 0 has the theoretical volume
\* of a row of height 0, and a row of height > 2R that of a row of height 2R.
C7_ClippingIdempotence ==
    (Computed /\ R > 0 /\ L > 0) =>
        \A i, j \in DOMAIN df.V_theoretical :
            /\ (df.height[i] < 0 /\ df.height[j] = 0)
                  => df.V_theoretical[i] = df.V_theoretical[j]
            /\ (df.height[i] > 2 * R /\ df.height[j] = 2 * R)
                  => df.V_theoretical[i] = df.V_theoretical[j]

C7_Witness ==
    /\ Computed
    /\ R > 0
    /\ L > 0
    /\ \E i, j \in DOMAIN df.V_theoretical :
          /\ df.height[i] > 2 * R
          /\ df.height[j] = 2 * R
          /\ df.V_theoretical[i] = df.V_theoretical[j]
          /\ df.V_theoretical[i] > 0

\* L * pi * R^2 in cm^3, as a fixed-point number
FullTank_cm3 == L * R * R * PI

\* C8 (as amended): with R > 0 and L > 0 the theoretical volume of height 0
\* is 0 and that of height 2R is L * pi * R^2 cm^3 converted to litres, that
\* is L * pi * R^2 * CM3_TO_L = L * pi * R^2 / 1000.
C8_BoundaryVolumesInLitres ==
    (Computed /\ R > 0 /\ L > 0) =>
        \A i \in DOMAIN df.V_theoretical :
            /\ df.height[i] = 0 => df.V_theoretical[i] = 0
            /\ df.height[i] = 2 * R
                  => df.V_theoretical[i] = FMul(FullTank_cm3, CM3_TO_L)

C8_Witness ==
    /\ Computed
    /\ R > 1
    /\ L > 0
    /\ \E i, j \in DOMAIN df.V_theoretical :
          /\ df.height[i] = 0
          /\ df.V_theoretical[i] = 0
          /\ df.height[j] = 2 * R
          /\ df.V_theoretical[j] > 0

\* C8 (as claimed): with R > 0 and L > 0 the theoretical volume of height 0
\* is 0 and that of height 2R equals L * pi * R^2.
C8_BoundaryVolumesAsClaimed ==
    (Computed /\ R > 0 /\ L > 0) =>
        \A i \in DOMAIN df.V_theoretical :
            /\ df.height[i] = 0 => df.V_theoretical[i] = 0
            /\ df.height[i] = 2 * R => df.V_theoretical[i] = FullTank_cm3

\* C9: with R > 0, for every row and whatever height was read, the argument
\* handed to arccos lies in [-1, 1], the argument handed to sqrt is >= 0, and
\* no undefined value (NaN) comes out of the formula.
C9_DomainGuards ==
    (Computed /\ R > 0) =>
        \A i \in DOMAIN h_geo :
            /\ ~IsNaN(ArccosArg(h_geo[i], R))
            /\ ArccosArg(h_geo[i], R) >= 0 - Scale
            /\ ArccosArg(h_geo[i], R) <= Scale
            /\ SqrtArg(h_geo[i], R) >= 0
            /\ ~IsNaN(df.V_theoretical[i])
            /\ ~IsNaN(df.deviation[i])

C9_Witness ==
    /\ Computed
    /\ R > 0
    /\ \E i, j \in DOMAIN h_geo :
          /\ df.height[i] < 0
          /\ ArccosArg(h_geo[i], R) = Scale
          /\ df.height[j] > 2 * R
          /\ ArccosArg(h_geo[j], R) = 0 - Scale
          /\ SqrtArg(h_geo[j], R) = 0

\* C10: the results file is written only after every row's theoretical
\* volume and deviation and both extremes are computed, the plot is rendered
\* only after the results file is written, and a run that fails writes
\* neither (in particular a run over an empty table).
C10_StepOrder ==
    /\ csv_written =>
          /\ Selected
          /\ DOMAIN df.V_theoretical = Rows
          /\ DOMAIN df.deviation = Rows
          /\ max_dev_idx \in Rows
          /\ min_dev_idx \in Rows
    /\ png_written => csv_written
    /\ (pc = "failed" \/ error # "none") => (~csv_written /\ ~png_written)
    /\ Rows = {} => (~csv_written /\ ~png_written)

C10_Witness ==
    /\ pc = "done"
    /\ csv_written
    /\ png_written
    /\ max_dev_idx # min_dev_idx
====
